---- MODULE Spec2Model ----
(***************************************************************************)
(* Model of the trc crate (src/src/lib.rs): one allocation                 *)
(* (SharedTrcInternal) and the handles that refer to it: Trc (with its     *)
(* thread-local threadref cell), SharedTrc and Weak.                       *)
(*                                                                         *)
(* Every atomic access to atomicref / weakcount is one step of a thread;   *)
(* accesses to a threadref cell are merged into the next atomic step of    *)
(* the thread that owns the cell (Trc is neither Send nor Sync).           *)
(*                                                                         *)
(* Accesses to freed memory (the allocation after dealloc, a threadref     *)
(* cell after Box::from_raw) are undefined behaviour: a read yields any    *)
(* value of the word, a write is lost, and the flag ub is raised; the step *)
(* that raises ub is the last step of the execution.                       *)
(*                                                                         *)
(* A panic (overflow guard) ends the operation with the result "panic";    *)
(* the counter keeps the increment, no handle is created, and the thread   *)
(* may go on (catch_unwind) or never take another step.                    *)
(*                                                                         *)
(* Spec has the operations on an allocation made by Trc::new; SpecDrop,    *)
(* SpecStrong, SpecFrom, SpecInner, SpecOwn, SpecUnwrap, SpecDecline,      *)
(* SpecRaw and SpecOverflow have the operations of one usage scenario      *)
(* each; SpecLive adds fair scheduling of the threads; SpecCyclic starts   *)
(* inside Trc::new_cyclic, SpecSlice builds a Trc<[T]>, SpecCmp compares   *)
(* handles, SpecOrder walks the atomic accesses of each operation with     *)
(* their memory orderings, and SpecLayout computes the addresses and       *)
(* layouts of an allocation.                                               *)
(***************************************************************************)
EXTENDS Integers, FiniteSets, Sequences, TLC

\* ---- bounds of the model ----
NThreads  == 2      \* threads
MaxCells  == 2      \* threadref cells ever allocated (thread-contexts)
MaxLocal  == 2      \* live Trc handles per cell
MaxShared == 2      \* live SharedTrc handles
MaxWeak   == 2      \* live explicit Weak handles
MaxRaw    == 1      \* raw pointers exported by into_raw and not yet re-imported
MaxLen    == 3      \* length of the source of a slice construction
MaxVal    == 3      \* largest of the ordered values that handles are compared on
Width     == 4      \* bits of usize in the model
MaxAlignLog  == 5   \* payload alignments are 1, 2, 4 .. 2^MaxAlignLog bytes
MaxElemWords == 2   \* payload sizes are 0 .. MaxElemWords times the alignment
MaxBase      == 2   \* allocations start at 1 .. MaxBase times their alignment

\* ---- program constants, scaled to Width ----
Modulus      == 2 ^ Width
USIZE_MAX    == Modulus - 1          \* usize::MAX
MAX_REFCOUNT == 2 ^ (Width - 1) - 1  \* isize::MAX as usize

Threads == 1 .. NThreads
Cells   == 1 .. MaxCells
Word    == 0 .. USIZE_MAX
PayloadInit == 0                     \* the value given to Trc::new
Values  == {0, 1}

VARIABLES
    atomicref,    \* SharedTrcInternal.atomicref  (strong count)
    weakcount,    \* SharedTrcInternal.weakcount  (weak count)
    data,         \* SharedTrcInternal.data       (payload value)
    payload,      \* state of the payload slot: "uninit", "live", "dropped", "moved"
    mem,          \* the allocation's memory: "none" (not allocated), "valid", "freed"
    threadref,    \* threadref[c]: value stored in cell c
    cellState,    \* cellState[c]: "none" (not yet allocated), "live", "freed"
    cellOwner,    \* cellOwner[c]: thread that allocated cell c (0: none)
    trcs,         \* trcs[c]: number of live Trc handles whose threadref is c
    nextCell,     \* next cell to allocate
    nShared,      \* number of live SharedTrc handles
    nWeak,        \* number of live explicit Weak handles
    nRaw,         \* number of raw pointers from into_raw not yet given to from_raw
    pc,           \* pc[t]: position of thread t inside its current operation
    reg,          \* reg[t]: locals of the current operation of thread t
    dropCount,    \* drop_in_place executions on the payload (saturates at 2)
    moveCount,    \* ptr::read moves of the payload          (saturates at 2)
    freeCount,    \* dealloc calls on the allocation         (saturates at 2)
    ub            \* an access to freed memory or a dead payload has happened

vars == <<atomicref, weakcount, data, payload, mem, threadref, cellState,
          cellOwner, trcs, nextCell, nShared, nWeak, nRaw, pc, reg,
          dropCount, moveCount, freeCount, ub>>

shared  == <<atomicref, weakcount>>
slot    == <<data, payload, dropCount, moveCount>>
cells   == <<threadref, cellState, cellOwner, trcs, nextCell>>
handles == <<nShared, nWeak, nRaw>>

NoReg == [op |-> "none", cell |-> 0, n |-> 0, res |-> "none"]

Sat(k) == IF k >= 2 THEN 2 ELSE k + 1

\* fetch_add / fetch_sub wrap around (src: sum_value, sub_value)
sum_value(v, offset) == (v + offset) % Modulus
sub_value(v, offset) == (v - offset + Modulus) % Modulus

\* value seen by a load of an atomic of the allocation
Load(v) == IF mem = "valid" THEN {v} ELSE Word
\* value of an atomic of the allocation after a store of new
Store(old, new) == IF mem = "valid" THEN new ELSE old
\* value seen by a read of cell c
CellRead(c) == IF cellState[c] = "live" THEN {threadref[c]} ELSE Word
CellWrite(c, new) == IF cellState[c] = "live"
                     THEN [threadref EXCEPT ![c] = new] ELSE threadref
\* Box::from_raw(threadref) dropped
BoxFree(c) == [cellState EXCEPT ![c] = "freed"]

\* thread t is at position p; an execution is not followed beyond undefined
\* behaviour
At(t, p) == ~ub /\ pc[t] = p

HoldsTrc(t, c) == /\ At(t, "idle")
                  /\ cellState[c] # "none"
                  /\ cellOwner[c] = t
                  /\ trcs[c] > 0

\* thread t can use a Weak: an explicit handle, or the &Weak that new_cyclic
\* lends to data_fn, which runs on thread 1 while the payload is not written
HasWeak(t) == nWeak > 0 \/ (t = 1 /\ payload = "uninit")

Goto(t, p, r) == /\ pc'  = [pc  EXCEPT ![t] = p]
                 /\ reg' = [reg EXCEPT ![t] = r]
Done(t, o, r) == Goto(t, "done", [NoReg EXCEPT !.op = o, !.res = r])
Idle(t)       == Goto(t, "idle", NoReg)

\* Trc::new(PayloadInit) on thread 1
Init ==
    /\ atomicref = 1
    /\ weakcount = 1
    /\ data = PayloadInit
    /\ payload = "live"
    /\ mem = "valid"
    /\ threadref = [c \in Cells |-> IF c = 1 THEN 1 ELSE 0]
    /\ cellState = [c \in Cells |-> IF c = 1 THEN "live" ELSE "none"]
    /\ cellOwner = [c \in Cells |-> IF c = 1 THEN 1 ELSE 0]
    /\ trcs = [c \in Cells |-> IF c = 1 THEN 1 ELSE 0]
    /\ nextCell = 2
    /\ nShared = 0
    /\ nWeak = 0
    /\ nRaw = 0
    /\ pc = [t \in Threads |-> "idle"]
    /\ reg = [t \in Threads |-> NoReg]
    /\ dropCount = 0
    /\ moveCount = 0
    /\ freeCount = 0
    /\ ub = FALSE

\* mutant of InitCyclic: the allocation starts with atomicref = 1
InitCyclic_Strong1 ==
    /\ atomicref = 1
    /\ weakcount = 1
    /\ data = PayloadInit
    /\ payload = "uninit"
    /\ mem = "valid"
    /\ threadref = [c \in Cells |-> 0]
    /\ cellState = [c \in Cells |-> "none"]
    /\ cellOwner = [c \in Cells |-> 0]
    /\ trcs = [c \in Cells |-> 0]
    /\ nextCell = 1
    /\ nShared = 0
    /\ nWeak = 0
    /\ nRaw = 0
    /\ pc = [t \in Threads |-> "idle"]
    /\ reg = [t \in Threads |-> NoReg]
    /\ dropCount = 0
    /\ moveCount = 0
    /\ freeCount = 0
    /\ ub = FALSE

\* Trc::new_cyclic on thread 1, at the call of data_fn(&weak): the allocation
\* has atomicref 0, weakcount 1 and an uninitialised payload, no cell exists
InitCyclic ==
    /\ atomicref = 0
    /\ weakcount = 1
    /\ data = PayloadInit
    /\ payload = "uninit"
    /\ mem = "valid"
    /\ threadref = [c \in Cells |-> 0]
    /\ cellState = [c \in Cells |-> "none"]
    /\ cellOwner = [c \in Cells |-> 0]
    /\ trcs = [c \in Cells |-> 0]
    /\ nextCell = 1
    /\ nShared = 0
    /\ nWeak = 0
    /\ nRaw = 0
    /\ pc = [t \in Threads |-> "idle"]
    /\ reg = [t \in Threads |-> NoReg]
    /\ dropCount = 0
    /\ moveCount = 0
    /\ freeCount = 0
    /\ ub = FALSE

\* ---- construction of a Trc<[T]> (the payload is a sequence) ----
\* content of an element slot that alloc returned and nothing has written
Uninit == -1
\* the sources of a slice construction: sequences of at most MaxLen values
Sources == UNION {[1 .. n -> Values] : n \in 0 .. MaxLen}
SliceOps == {"Trc::from(&[T])", "Trc::from_iter"}

\* thread 1 calls From<&[T]>::from or FromIterator::from_iter on a source;
\* reg.src is the source, reg.vec what the ExactSizeIterator runs over
InitSlice ==
    /\ atomicref = 0
    /\ weakcount = 0
    /\ data = << >>
    /\ payload = "uninit"
    /\ mem = "none"
    /\ threadref = [c \in Cells |-> 0]
    /\ cellState = [c \in Cells |-> "none"]
    /\ cellOwner = [c \in Cells |-> 0]
    /\ trcs = [c \in Cells |-> 0]
    /\ nextCell = 1
    /\ nShared = 0
    /\ nWeak = 0
    /\ nRaw = 0
    /\ \E o \in SliceOps, src \in Sources :
         /\ pc = [t \in Threads |->
                    IF t # 1 THEN "idle"
                    ELSE IF o = "Trc::from_iter" THEN "slice_collect"
                    ELSE "slice_alloc"]
         /\ reg = [t \in Threads |->
                     IF t # 1 THEN NoReg
                     ELSE [op |-> o, cell |-> 0, n |-> 0, res |-> "none",
                           src |-> src,
                           vec |-> IF o = "Trc::from_iter" THEN << >> ELSE src]]
    /\ dropCount = 0
    /\ moveCount = 0
    /\ freeCount = 0
    /\ ub = FALSE

\* FromIterator::from_iter: iter.into_iter().collect::<Vec<_>>(), then
\* From<&[T]>::from on the slice of the Vec
SliceCollect(t) ==
    /\ At(t, "slice_collect")
    /\ Goto(t, "slice_alloc", [reg[t] EXCEPT !.vec = reg[t].src])
    /\ UNCHANGED <<shared, slot, mem, cells, handles, freeCount, ub>>

\* create_from_iterator_exact: alloc(layout) for iterator.len() elements; the
\* memory returned holds anything
SliceAlloc(t) ==
    /\ At(t, "slice_alloc")
    /\ mem = "none"
    /\ mem' = "valid"
    /\ atomicref' \in Word
    /\ weakcount' \in Word
    /\ data' = [i \in 1 .. Len(reg[t].vec) |-> Uninit]
    /\ Goto(t, "slice_header", reg[t])
    /\ UNCHANGED <<payload, dropCount, moveCount, cells, handles, freeCount, ub>>

\* create_from_iterator_exact: write of atomicref and weakcount
SliceHeader(t) ==
    /\ At(t, "slice_header")
    /\ atomicref' = 1
    /\ weakcount' = 1
    /\ Goto(t, "slice_fill", [reg[t] EXCEPT !.n = 0])
    /\ UNCHANGED <<slot, mem, cells, handles, freeCount, ub>>

\* mutant of SliceFill: the elements are written from the end of the buffer
SliceFill_Reversed(t) ==
    /\ At(t, "slice_fill")
    /\ reg[t].n < Len(reg[t].vec)
    /\ data' = [data EXCEPT ![Len(reg[t].vec) - reg[t].n] = reg[t].vec[reg[t].n + 1]]
    /\ Goto(t, "slice_fill", [reg[t] EXCEPT !.n = @ + 1])
    /\ UNCHANGED <<shared, payload, dropCount, moveCount, mem, cells, handles,
                   freeCount, ub>>

\* create_from_iterator_exact: one turn of the loop over
\* iterator.enumerate(): write(elems.add(n), i)
SliceFill(t) ==
    /\ At(t, "slice_fill")
    /\ reg[t].n < Len(reg[t].vec)
    /\ data' = [data EXCEPT ![reg[t].n + 1] = reg[t].vec[reg[t].n + 1]]
    /\ Goto(t, "slice_fill", [reg[t] EXCEPT !.n = @ + 1])
    /\ UNCHANGED <<shared, payload, dropCount, moveCount, mem, cells, handles,
                   freeCount, ub>>

\* ---- comparisons of two handles a and b that wrap the values x and y ----
OrdValues == 0 .. MaxVal
HandleKinds == {"Trc", "SharedTrc"}
Bool(b) == IF b THEN "true" ELSE "false"

\* impl PartialOrd for Trc: each method calls a method of the payloads
Trc_ge(x, y) == x >= y
Trc_le(x, y) == x >= y
Trc_gt(x, y) == x > y
Trc_lt(x, y) == x < y
\* impl PartialOrd for SharedTrc
SharedTrc_ge(x, y) == x >= y
SharedTrc_le(x, y) == x >= y
SharedTrc_gt(x, y) == x > y
SharedTrc_lt(x, y) == x < y

\* thread 1 holds two handles of the same kind on the values x and y
InitCmp ==
    /\ atomicref = 1
    /\ weakcount = 1
    /\ data = PayloadInit
    /\ payload = "live"
    /\ mem = "valid"
    /\ threadref = [c \in Cells |-> IF c = 1 THEN 1 ELSE 0]
    /\ cellState = [c \in Cells |-> IF c = 1 THEN "live" ELSE "none"]
    /\ cellOwner = [c \in Cells |-> IF c = 1 THEN 1 ELSE 0]
    /\ trcs = [c \in Cells |-> IF c = 1 THEN 1 ELSE 0]
    /\ nextCell = 2
    /\ nShared = 0
    /\ nWeak = 0
    /\ nRaw = 0
    /\ pc = [t \in Threads |-> "idle"]
    /\ \E k \in HandleKinds, x \in OrdValues, y \in OrdValues :
         reg = [t \in Threads |->
                  IF t # 1 THEN NoReg
                  ELSE [op |-> "none", cell |-> 0, n |-> 0, res |-> "none",
                        kind |-> k, x |-> x, y |-> y]]
    /\ dropCount = 0
    /\ moveCount = 0
    /\ freeCount = 0
    /\ ub = FALSE

\* the result of comparison m on the handles is returned to the caller
Compared(t, m, b) ==
    /\ Goto(t, "done", [reg[t] EXCEPT !.op = m, !.res = Bool(b)])
    /\ UNCHANGED <<shared, slot, mem, cells, handles, freeCount, ub>>

HoldsPair(t) == At(t, "idle") /\ "kind" \in DOMAIN reg[t]

\* a >= b
CmpGe(t) ==
    /\ HoldsPair(t)
    /\ Compared(t, "ge", IF reg[t].kind = "Trc" THEN Trc_ge(reg[t].x, reg[t].y)
                         ELSE SharedTrc_ge(reg[t].x, reg[t].y))

\* a <= b
CmpLe(t) ==
    /\ HoldsPair(t)
    /\ Compared(t, "le", IF reg[t].kind = "Trc" THEN Trc_le(reg[t].x, reg[t].y)
                         ELSE SharedTrc_le(reg[t].x, reg[t].y))

\* a > b
CmpGt(t) ==
    /\ HoldsPair(t)
    /\ Compared(t, "gt", IF reg[t].kind = "Trc" THEN Trc_gt(reg[t].x, reg[t].y)
                         ELSE SharedTrc_gt(reg[t].x, reg[t].y))

\* a < b
CmpLt(t) ==
    /\ HoldsPair(t)
    /\ Compared(t, "lt", IF reg[t].kind = "Trc" THEN Trc_lt(reg[t].x, reg[t].y)
                         ELSE SharedTrc_lt(reg[t].x, reg[t].y))

\* the caller takes the result of a comparison and keeps the two handles
CmpReturn(t) ==
    /\ At(t, "done")
    /\ "kind" \in DOMAIN reg[t]
    /\ Goto(t, "idle", [reg[t] EXCEPT !.op = "none", !.res = "none"])
    /\ UNCHANGED <<shared, slot, mem, cells, handles, freeCount, ub>>

\* the cells that the upgrades in progress on other threads are going to take
Reserved(t) == Cardinality({u \in Threads \ {t} : pc[u] = "upgrade_cas"})

\* ---- layout of the allocation: addresses and sizes in bytes ----

WordBytes == 8                      \* size_of::<usize>(), the size of a counter
Aligns == {2 ^ k : k \in 0 .. MaxAlignLog}

Max(a, b) == IF a >= b THEN a ELSE b
RoundUp(x, a) == ((x + a - 1) \div a) * a
Layout(size, align) == [size |-> size, align |-> align]

\* Layout::new::<SharedTrcInternal<()>>(): the two counters and an empty payload
Layout_new_header == Layout(RoundUp(2 * WordBytes, WordBytes), WordBytes)

\* Layout::array::<T>(n)
Layout_array(esize, ealign, n) == Layout(esize * n, ealign)

\* Layout::extend: next is placed after l at the next multiple of its alignment
extend(l, next) ==
    [layout |-> Layout(RoundUp(l.size, next.align) + next.size,
                       Max(l.align, next.align)),
     offset |-> RoundUp(l.size, next.align)]

\* Layout::pad_to_align
pad_to_align(l) == Layout(RoundUp(l.size, l.align), l.align)

\* mutant of slice_layout: pad_to_align is missing
slice_layout_NoPad(esize, ealign, n) ==
    extend(Layout_new_header, Layout_array(esize, ealign, n)).layout

\* the layout that new_uninit_slice and create_from_iterator_exact allocate
slice_layout(esize, ealign, n) ==
    pad_to_align(extend(Layout_new_header, Layout_array(esize, ealign, n)).layout)

\* the offset of the field data in the #[repr(C)] struct SharedTrcInternal<T>
data_offset(ealign) == RoundUp(2 * WordBytes, ealign)

\* Layout::for_value on a SharedTrcInternal<[T]> of n elements, as impl Drop
\* for Weak computes it for dealloc
Layout_for_value(esize, ealign, n) ==
    LET align == Max(WordBytes, ealign) IN
    Layout(RoundUp(data_offset(ealign) + esize * n, align), align)

\* Trc::as_ptr / SharedTrc::as_ptr: addr_of_mut!((*ptr).data)
as_ptr(base, ealign) == base + data_offset(ealign)

\* Trc::from_raw / SharedTrc::from_raw: (ptr as *const u8).sub(n), n the size
\* of SharedTrcInternal<()>
from_raw(ptr) == ptr - Layout_new_header.size

\* an allocation of a payload type with alignment ealign and size esize (as a
\* slice: len elements of that type), at address base
InitLayout ==
    /\ atomicref = 1
    /\ weakcount = 1
    /\ data = PayloadInit
    /\ payload = "live"
    /\ mem = "valid"
    /\ threadref = [c \in Cells |-> IF c = 1 THEN 1 ELSE 0]
    /\ cellState = [c \in Cells |-> IF c = 1 THEN "live" ELSE "none"]
    /\ cellOwner = [c \in Cells |-> IF c = 1 THEN 1 ELSE 0]
    /\ trcs = [c \in Cells |-> IF c = 1 THEN 1 ELSE 0]
    /\ nextCell = 2
    /\ nShared = 0
    /\ nWeak = 0
    /\ nRaw = 0
    /\ pc = [t \in Threads |-> "idle"]
    /\ \E a \in Aligns, k \in 0 .. MaxElemWords, n \in 0 .. MaxLen, b \in 1 .. MaxBase :
         reg = [t \in Threads |->
                  IF t # 1 THEN NoReg
                  ELSE [op |-> "none", cell |-> 0, n |-> 0, res |-> "none",
                        ealign |-> a, esize |-> k * a, len |-> n,
                        base |-> b * Max(WordBytes, a),
                        ptr |-> 0, shared |-> 0,
                        alloc |-> Layout(0, 1), free |-> Layout(0, 1)]]
    /\ dropCount = 0
    /\ moveCount = 0
    /\ freeCount = 0
    /\ ub = FALSE

HoldsLayout(t) == At(t, "idle") /\ "ealign" \in DOMAIN reg[t]

\* Trc::into_raw / SharedTrc::into_raw: the pointer to the payload
PtrIntoRaw(t) ==
    /\ HoldsLayout(t)
    /\ Goto(t, "raw", [reg[t] EXCEPT !.op = "into_raw",
                                     !.ptr = as_ptr(reg[t].base, reg[t].ealign)])
    /\ UNCHANGED <<shared, slot, mem, cells, handles, freeCount, ub>>

\* Trc::from_raw / SharedTrc::from_raw: the field shared / data of the handle
PtrFromRaw(t) ==
    /\ At(t, "raw")
    /\ Goto(t, "done", [reg[t] EXCEPT !.op = "from_raw",
                                      !.shared = from_raw(reg[t].ptr)])
    /\ UNCHANGED <<shared, slot, mem, cells, handles, freeCount, ub>>

\* new_uninit_slice / create_from_iterator_exact: alloc(layout)
SliceLayoutAlloc(t) ==
    /\ HoldsLayout(t)
    /\ Goto(t, "allocated",
            [reg[t] EXCEPT !.op = "alloc",
                           !.alloc = slice_layout(reg[t].esize, reg[t].ealign, reg[t].len)])
    /\ UNCHANGED <<shared, slot, mem, cells, handles, freeCount, ub>>

\* impl Drop for Weak at the last weak unit: dealloc(ptr, Layout::for_value(..))
SliceLayoutFree(t) ==
    /\ At(t, "allocated")
    /\ Goto(t, "done",
            [reg[t] EXCEPT !.op = "dealloc",
                           !.free = Layout_for_value(reg[t].esize, reg[t].ealign, reg[t].len)])
    /\ UNCHANGED <<shared, slot, mem, cells, handles, freeCount, ub>>

\* the next allocation of the same type is looked at
LayoutReturn(t) ==
    /\ At(t, "done")
    /\ "ealign" \in DOMAIN reg[t]
    /\ Goto(t, "idle", [reg[t] EXCEPT !.op = "none"])
    /\ UNCHANGED <<shared, slot, mem, cells, handles, freeCount, ub>>

NextLayout ==
    \E t \in Threads :
      \/ PtrIntoRaw(t)
      \/ PtrFromRaw(t)
      \/ SliceLayoutAlloc(t)
      \/ SliceLayoutFree(t)
      \/ LayoutReturn(t)

SpecLayout == InitLayout /\ [][NextLayout]_vars

\* a fresh cell holding 1, owned by t, with one Trc handle (Box::new(1))
NewCell(t) ==
    /\ nextCell + Reserved(t) <= MaxCells
    /\ threadref' = [threadref EXCEPT ![nextCell] = 1]
    /\ cellState' = [cellState EXCEPT ![nextCell] = "live"]
    /\ cellOwner' = [cellOwner EXCEPT ![nextCell] = t]
    /\ trcs' = [trcs EXCEPT ![nextCell] = 1]
    /\ nextCell' = nextCell + 1

\* Trc::local_count: the value read through a handle on cell c
local_count(c) == CellRead(c)

\* mutant of TrcClone: the new handle is made without counting it
TrcClone_NoCount(t, c) ==
    /\ HoldsTrc(t, c)
    /\ trcs[c] < MaxLocal
    /\ Idle(t)
    /\ trcs' = [trcs EXCEPT ![c] = @ + 1]
    /\ ub' = (ub \/ cellState[c] # "live")
    /\ UNCHANGED <<shared, slot, mem, threadref, cellState, cellOwner, nextCell,
                   handles, freeCount>>

\* TrcFromIter::from_iter: the iterator is exhausted, the Trc is built on a
\* fresh cell (Box::new(1))
SliceBuild(t) ==
    /\ At(t, "slice_fill")
    /\ reg[t].n = Len(reg[t].vec)
    /\ payload' = "live"
    /\ NewCell(t)
    /\ Goto(t, "done", [reg[t] EXCEPT !.res = "Ok"])
    /\ UNCHANGED <<shared, data, dropCount, moveCount, mem, handles, freeCount, ub>>

\* impl Clone for Trc
TrcClone(t, c) ==
    /\ HoldsTrc(t, c)
    /\ trcs[c] < MaxLocal
    /\ \E v \in CellRead(c) :
         LET new == sum_value(v, 1) IN
         /\ threadref' = CellWrite(c, new)
         /\ IF new > MAX_REFCOUNT
            THEN /\ Done(t, "Trc::clone", "panic")
                 /\ UNCHANGED trcs
            ELSE /\ Idle(t)
                 /\ trcs' = [trcs EXCEPT ![c] = @ + 1]
    /\ ub' = (ub \/ cellState[c] # "live")
    /\ UNCHANGED <<shared, slot, mem, cellState, cellOwner, nextCell,
                   handles, freeCount>>

\* how an operation that ran the teardown path returns
Finish(t) ==
    IF reg[t].op = "Trc::try_unwrap" THEN Done(t, "Trc::try_unwrap", "Ok")
    ELSE IF reg[t].op = "Trc::into_inner" THEN Done(t, "Trc::into_inner", "Some")
    ELSE Idle(t)

\* the first step of impl Drop for Weak: fetch_sub on weakcount
WeakDropSub(t, o) ==
    \E prev \in Load(weakcount) :
      /\ weakcount' = Store(weakcount, sub_value(prev, 1))
      /\ IF prev # 1
         THEN IF o = "Weak::drop" THEN Idle(t) ELSE Finish(t)
         ELSE Goto(t, "dealloc", [reg[t] EXCEPT !.op = o])
      /\ ub' = (ub \/ mem # "valid")

\* impl Drop for Weak, on an explicit Weak handle; a handle borrowed by an
\* upgrade in progress cannot be dropped
WeakDrop(t) ==
    /\ At(t, "idle")
    /\ nWeak > (IF \E u \in Threads : pc[u] = "upgrade_cas" THEN 1 ELSE 0)
    /\ nWeak' = nWeak - 1
    /\ WeakDropSub(t, "Weak::drop")
    /\ UNCHANGED <<atomicref, slot, mem, cells, nShared, nRaw, freeCount>>

\* `Weak { data: self.shared };` : the temporary that releases the baseline unit
ReleaseBaseline(t) ==
    /\ At(t, "release_weak")
    /\ WeakDropSub(t, reg[t].op)
    /\ UNCHANGED <<atomicref, slot, mem, cells, handles, freeCount>>

\* std::alloc::dealloc in impl Drop for Weak
Dealloc(t) ==
    /\ At(t, "dealloc")
    /\ mem' = "freed"
    /\ freeCount' = Sat(freeCount)
    /\ ub' = (ub \/ mem # "valid")
    /\ Finish(t)
    /\ UNCHANGED <<shared, slot, cells, handles>>

\* core::ptr::drop_in_place on the payload
DropInPlace(t) ==
    /\ At(t, "drop_in_place")
    /\ payload' = "dropped"
    /\ dropCount' = Sat(dropCount)
    /\ ub' = (ub \/ mem # "valid" \/ payload # "live")
    /\ Goto(t, "release_weak", reg[t])
    /\ UNCHANGED <<shared, data, moveCount, mem, cells, handles, freeCount>>

\* core::ptr::read of the payload in try_unwrap / into_inner, then the cell is freed
ReadOut(t) ==
    /\ At(t, "read_out")
    /\ payload' = "moved"
    /\ moveCount' = Sat(moveCount)
    /\ cellState' = BoxFree(reg[t].cell)
    /\ ub' = (ub \/ mem # "valid" \/ payload # "live"
                 \/ cellState[reg[t].cell] # "live")
    /\ Goto(t, "release_weak", reg[t])
    /\ UNCHANGED <<shared, data, dropCount, mem, threadref, cellOwner, trcs,
                   nextCell, handles, freeCount>>

\* mutant of TrcDrop: every drop of a handle also does fetch_sub on atomicref
TrcDrop_AlwaysAtomic(t, c) ==
    /\ HoldsTrc(t, c)
    /\ trcs' = [trcs EXCEPT ![c] = @ - 1]
    /\ \E v \in CellRead(c) :
         LET new == sub_value(v, 1) IN
         /\ threadref' = CellWrite(c, new)
         /\ cellState' = IF new = 0 THEN BoxFree(c) ELSE cellState
         /\ \E prev \in Load(atomicref) :
              /\ atomicref' = Store(atomicref, sub_value(prev, 1))
              /\ IF prev # 1
                 THEN Idle(t)
                 ELSE Goto(t, "drop_in_place",
                           [NoReg EXCEPT !.op = "Trc::drop", !.cell = c])
         /\ ub' = (ub \/ cellState[c] # "live" \/ mem # "valid")
    /\ UNCHANGED <<weakcount, slot, mem, cellOwner, nextCell, handles, freeCount>>

\* impl Drop for Trc
TrcDrop(t, c) ==
    /\ HoldsTrc(t, c)
    /\ trcs' = [trcs EXCEPT ![c] = @ - 1]
    /\ \E v \in CellRead(c) :
         LET new == sub_value(v, 1) IN
         IF new = 0
         THEN /\ threadref' = CellWrite(c, new)
              /\ cellState' = BoxFree(c)
              /\ \E prev \in Load(atomicref) :
                   /\ atomicref' = Store(atomicref, sub_value(prev, 1))
                   /\ IF prev # 1
                      THEN Idle(t)
                      ELSE Goto(t, "drop_in_place",
                                [NoReg EXCEPT !.op = "Trc::drop", !.cell = c])
              /\ ub' = (ub \/ cellState[c] # "live" \/ mem # "valid")
         ELSE /\ threadref' = CellWrite(c, new)
              /\ Idle(t)
              /\ ub' = (ub \/ cellState[c] # "live")
              /\ UNCHANGED <<atomicref, cellState>>
    /\ UNCHANGED <<weakcount, slot, mem, cellOwner, nextCell, handles, freeCount>>

\* SharedTrc::from_trc
FromTrc(t, c) ==
    /\ HoldsTrc(t, c)
    /\ nShared < MaxShared
    /\ \E prev \in Load(atomicref) :
         /\ atomicref' = Store(atomicref, sum_value(prev, 1))
         /\ IF prev > MAX_REFCOUNT
            THEN Done(t, "SharedTrc::from_trc", "panic") /\ UNCHANGED nShared
            ELSE Idle(t) /\ nShared' = nShared + 1
    /\ ub' = (ub \/ mem # "valid")
    /\ UNCHANGED <<weakcount, slot, mem, cells, nWeak, nRaw, freeCount>>

\* mutant of SharedFrom: the increment of atomicref is missing
SharedFrom_NoIncrement(t, c) ==
    /\ HoldsTrc(t, c)
    /\ nShared + Cardinality({u \in Threads : pc[u] = "from_release"}) < MaxShared
    /\ Goto(t, "from_release",
            [NoReg EXCEPT !.op = "SharedTrc::from", !.cell = c, !.res = "Ok"])
    /\ ub' = (ub \/ mem # "valid")
    /\ UNCHANGED <<shared, slot, mem, cells, handles, freeCount>>

\* impl From<Trc<T>> for SharedTrc<T>: the call SharedTrc::from_trc(&value);
\* value is still owned by from
SharedFrom(t, c) ==
    /\ HoldsTrc(t, c)
    /\ nShared + Cardinality({u \in Threads : pc[u] = "from_release"}) < MaxShared
    /\ \E prev \in Load(atomicref) :
         /\ atomicref' = Store(atomicref, sum_value(prev, 1))
         /\ Goto(t, "from_release",
                 [NoReg EXCEPT !.op = "SharedTrc::from", !.cell = c,
                               !.res = IF prev > MAX_REFCOUNT THEN "panic" ELSE "Ok"])
    /\ ub' = (ub \/ mem # "valid")
    /\ UNCHANGED <<weakcount, slot, mem, cells, handles, freeCount>>

\* impl From<Trc<T>> for SharedTrc<T>: value goes out of scope (impl Drop for
\* Trc), on return as on unwinding, and the SharedTrc is handed to the caller
FromRelease(t) ==
    LET c == reg[t].cell IN
    /\ At(t, "from_release")
    /\ trcs' = [trcs EXCEPT ![c] = @ - 1]
    /\ nShared' = IF reg[t].res = "Ok" THEN nShared + 1 ELSE nShared
    /\ \E v \in CellRead(c) :
         LET new == sub_value(v, 1) IN
         IF new = 0
         THEN /\ threadref' = CellWrite(c, new)
              /\ cellState' = BoxFree(c)
              /\ \E prev \in Load(atomicref) :
                   /\ atomicref' = Store(atomicref, sub_value(prev, 1))
                   /\ IF prev # 1
                      THEN Done(t, "SharedTrc::from", reg[t].res)
                      ELSE Goto(t, "drop_in_place",
                                [NoReg EXCEPT !.op = "SharedTrc::from", !.cell = c])
              /\ ub' = (ub \/ cellState[c] # "live" \/ mem # "valid")
         ELSE /\ threadref' = CellWrite(c, new)
              /\ Done(t, "SharedTrc::from", reg[t].res)
              /\ ub' = (ub \/ cellState[c] # "live")
              /\ UNCHANGED <<atomicref, cellState>>
    /\ UNCHANGED <<weakcount, slot, mem, cellOwner, nextCell, nWeak, nRaw, freeCount>>

\* impl Clone for SharedTrc
SharedClone(t) ==
    /\ At(t, "idle")
    /\ nShared > 0
    /\ nShared < MaxShared
    /\ \E prev \in Load(atomicref) :
         /\ atomicref' = Store(atomicref, sum_value(prev, 1))
         /\ IF prev > MAX_REFCOUNT
            THEN Done(t, "SharedTrc::clone", "panic") /\ UNCHANGED nShared
            ELSE Idle(t) /\ nShared' = nShared + 1
    /\ ub' = (ub \/ mem # "valid")
    /\ UNCHANGED <<weakcount, slot, mem, cells, nWeak, nRaw, freeCount>>

\* mutant of ToTrc: the strong count is incremented once more
ToTrc_Recount(t) ==
    /\ At(t, "idle")
    /\ nShared > 0
    /\ nShared' = nShared - 1
    /\ atomicref' = sum_value(atomicref, 1)
    /\ NewCell(t)
    /\ UNCHANGED <<weakcount, slot, mem, nWeak, nRaw, pc, reg, freeCount, ub>>

\* mutant of ToTrc: core::mem::forget(this) is missing, so the fetch_sub of
\* the SharedTrc's drop runs
ToTrc_NoForget(t) ==
    /\ At(t, "idle")
    /\ nShared > 0
    /\ nShared' = nShared - 1
    /\ atomicref' = sub_value(atomicref, 1)
    /\ NewCell(t)
    /\ UNCHANGED <<weakcount, slot, mem, nWeak, nRaw, pc, reg, freeCount, ub>>

\* SharedTrc::to_trc
ToTrc(t) ==
    /\ At(t, "idle")
    /\ nShared > 0
    /\ nShared' = nShared - 1
    /\ NewCell(t)
    /\ UNCHANGED <<shared, slot, mem, nWeak, nRaw, pc, reg, freeCount, ub>>

\* impl Drop for SharedTrc: fetch_sub on atomicref
SharedDrop(t) ==
    /\ At(t, "idle")
    /\ nShared > 0
    /\ nShared' = nShared - 1
    /\ \E prev \in Load(atomicref) :
         /\ atomicref' = Store(atomicref, sub_value(prev, 1))
         /\ IF prev # 1
            THEN Idle(t)
            ELSE Goto(t, "shared_load_weak", [NoReg EXCEPT !.op = "SharedTrc::drop"])
    /\ ub' = (ub \/ mem # "valid")
    /\ UNCHANGED <<weakcount, slot, mem, cells, nWeak, nRaw, freeCount>>

\* impl Drop for SharedTrc: the load of weakcount and the test weak == 1
SharedDropLoadWeak(t) ==
    /\ At(t, "shared_load_weak")
    /\ \E w \in Load(weakcount) :
         IF w = 1 THEN Goto(t, "drop_in_place", reg[t]) ELSE Idle(t)
    /\ ub' = (ub \/ mem # "valid")
    /\ UNCHANGED <<shared, slot, mem, cells, handles, freeCount>>

\* Trc::into_raw: the cell is freed whatever it holds, the handle is forgotten
IntoRaw(t, c) ==
    /\ HoldsTrc(t, c)
    /\ nRaw < MaxRaw
    /\ cellState' = BoxFree(c)
    /\ trcs' = [trcs EXCEPT ![c] = @ - 1]
    /\ nRaw' = nRaw + 1
    /\ Idle(t)
    /\ ub' = (ub \/ cellState[c] # "live")
    /\ UNCHANGED <<shared, slot, mem, threadref, cellOwner, nextCell, nShared,
                   nWeak, freeCount>>

\* Trc::from_raw: a handle on a fresh cell holding 1
FromRaw(t) ==
    /\ At(t, "idle")
    /\ nRaw > 0
    /\ nRaw' = nRaw - 1
    /\ NewCell(t)
    /\ UNCHANGED <<shared, slot, mem, nShared, nWeak, pc, reg, freeCount, ub>>

\* SharedTrc::into_raw: the handle is forgotten
SharedIntoRaw(t) ==
    /\ At(t, "idle")
    /\ nShared > 0
    /\ nRaw < MaxRaw
    /\ nShared' = nShared - 1
    /\ nRaw' = nRaw + 1
    /\ UNCHANGED <<shared, slot, mem, cells, nWeak, pc, reg, freeCount, ub>>

\* SharedTrc::from_raw
SharedFromRaw(t) ==
    /\ At(t, "idle")
    /\ nRaw > 0
    /\ nShared < MaxShared
    /\ nRaw' = nRaw - 1
    /\ nShared' = nShared + 1
    /\ UNCHANGED <<shared, slot, mem, cells, nWeak, pc, reg, freeCount, ub>>

\* Trc::new_cyclic: data_fn returns, the lent Weak is forgotten and the
\* payload is written
CyclicWrite(t) ==
    /\ At(t, "idle")
    /\ t = 1
    /\ payload = "uninit"
    /\ payload' = "live"
    /\ data' = PayloadInit
    /\ Goto(t, "cyclic_raise", [NoReg EXCEPT !.op = "Trc::new_cyclic"])
    /\ ub' = (ub \/ mem # "valid")
    /\ UNCHANGED <<shared, dropCount, moveCount, mem, cells, handles, freeCount>>

\* mutant of CyclicRaise: the Weak lent to data_fn is dropped, not forgotten
CyclicRaise_ReleaseWeak(t) ==
    /\ At(t, "cyclic_raise")
    /\ weakcount' = Store(weakcount, sub_value(weakcount, 1))
    /\ \E prev \in Load(atomicref) :
         /\ atomicref' = Store(atomicref, sum_value(prev, 1))
         /\ IF prev > MAX_REFCOUNT
            THEN Done(t, "Trc::new_cyclic", "panic") /\ UNCHANGED cells
            ELSE Done(t, "Trc::new_cyclic", "Ok") /\ NewCell(t)
    /\ ub' = (ub \/ mem # "valid")
    /\ UNCHANGED <<slot, mem, handles, freeCount>>

\* Trc::new_cyclic: fetch_add on atomicref, then the Trc on a fresh cell
CyclicRaise(t) ==
    /\ At(t, "cyclic_raise")
    /\ \E prev \in Load(atomicref) :
         /\ atomicref' = Store(atomicref, sum_value(prev, 1))
         /\ IF prev > MAX_REFCOUNT
            THEN Done(t, "Trc::new_cyclic", "panic") /\ UNCHANGED cells
            ELSE Done(t, "Trc::new_cyclic", "Ok") /\ NewCell(t)
    /\ ub' = (ub \/ mem # "valid")
    /\ UNCHANGED <<weakcount, slot, mem, handles, freeCount>>

\* core::mem::forget on a SharedTrc: the handle is gone, atomicref keeps its unit
ForgetShared(t) ==
    /\ At(t, "idle")
    /\ nShared > 0
    /\ nShared' = nShared - 1
    /\ UNCHANGED <<shared, slot, mem, cells, nWeak, nRaw, pc, reg, freeCount, ub>>

\* core::mem::forget on a Weak: the handle is gone, weakcount keeps its unit
ForgetWeak(t) ==
    /\ At(t, "idle")
    /\ nWeak > (IF \E u \in Threads : pc[u] = "upgrade_cas" THEN 1 ELSE 0)
    /\ nWeak' = nWeak - 1
    /\ UNCHANGED <<shared, slot, mem, cells, nShared, nRaw, pc, reg, freeCount, ub>>

\* Trc::downgrade
downgrade(t, c) ==
    /\ HoldsTrc(t, c)
    /\ nWeak < MaxWeak
    /\ \E prev \in Load(weakcount) :
         /\ weakcount' = Store(weakcount, sum_value(prev, 1))
         /\ IF prev > MAX_REFCOUNT
            THEN Done(t, "Trc::downgrade", "panic") /\ UNCHANGED nWeak
            ELSE Idle(t) /\ nWeak' = nWeak + 1
    /\ ub' = (ub \/ mem # "valid")
    /\ UNCHANGED <<atomicref, slot, mem, cells, nShared, nRaw, freeCount>>

\* impl Clone for Weak
WeakClone(t) ==
    /\ At(t, "idle")
    /\ HasWeak(t)
    /\ nWeak < MaxWeak
    /\ \E prev \in Load(weakcount) :
         /\ weakcount' = Store(weakcount, sum_value(prev, 1))
         /\ IF prev > MAX_REFCOUNT
            THEN Done(t, "Weak::clone", "panic") /\ UNCHANGED nWeak
            ELSE Idle(t) /\ nWeak' = nWeak + 1
    /\ ub' = (ub \/ mem # "valid")
    /\ UNCHANGED <<atomicref, slot, mem, cells, nShared, nRaw, freeCount>>


\* mutant of UpgradeClosure: the test n == 0 is missing
UpgradeClosure_NoZeroTest(t, n) ==
    IF n > MAX_REFCOUNT THEN Done(t, "Weak::upgrade", "panic")
    ELSE Goto(t, "upgrade_cas", [NoReg EXCEPT !.op = "Weak::upgrade", !.n = n])

\* the closure of fetch_update in Weak::upgrade, applied to the value n
\* that was read: give up at 0, assert n <= MAX_REFCOUNT, else try n -> n+1
UpgradeClosure(t, n) ==
    IF n = 0 THEN Done(t, "Weak::upgrade", "None")
    ELSE IF n > MAX_REFCOUNT THEN Done(t, "Weak::upgrade", "panic")
    ELSE Goto(t, "upgrade_cas", [NoReg EXCEPT !.op = "Weak::upgrade", !.n = n])

\* Weak::upgrade: the initial load of fetch_update
UpgradeLoad(t) ==
    /\ At(t, "idle")
    /\ HasWeak(t)
    /\ nextCell + Reserved(t) <= MaxCells
    /\ \E n \in Load(atomicref) : UpgradeClosure(t, n)
    /\ ub' = (ub \/ mem # "valid")
    /\ UNCHANGED <<shared, slot, mem, cells, handles, freeCount>>

\* mutant of UpgradeCas: a successful upgrade also does fetch_sub on weakcount
UpgradeCas_ConsumeWeak(t) ==
    /\ At(t, "upgrade_cas")
    /\ \E cur \in Load(atomicref) :
         IF cur = reg[t].n
         THEN /\ atomicref' = Store(atomicref, cur + 1)
              /\ weakcount' = Store(weakcount, sub_value(weakcount, 1))
              /\ NewCell(t)
              /\ Done(t, "Weak::upgrade", "Some")
         ELSE /\ UpgradeClosure(t, cur)
              /\ UNCHANGED <<shared, cells>>
    /\ ub' = (ub \/ mem # "valid")
    /\ UNCHANGED <<slot, mem, handles, freeCount>>

\* mutant of UpgradeCas: the value read earlier plus 1 is stored without
\* comparing
UpgradeCas_NoCompare(t) ==
    /\ At(t, "upgrade_cas")
    /\ atomicref' = Store(atomicref, reg[t].n + 1)
    /\ NewCell(t)
    /\ Done(t, "Weak::upgrade", "Some")
    /\ ub' = (ub \/ mem # "valid")
    /\ UNCHANGED <<weakcount, slot, mem, handles, freeCount>>

\* mutant of UpgradeCas: after a failed compare-exchange the loop tries again
\* with the value it read at first
UpgradeCas_StaleRetry(t) ==
    /\ At(t, "upgrade_cas")
    /\ \E cur \in Load(atomicref) :
         IF cur = reg[t].n
         THEN /\ atomicref' = Store(atomicref, cur + 1)
              /\ NewCell(t)
              /\ Done(t, "Weak::upgrade", "Some")
         ELSE UNCHANGED <<atomicref, cells, pc, reg>>
    /\ ub' = (ub \/ mem # "valid")
    /\ UNCHANGED <<weakcount, slot, mem, handles, freeCount>>

\* Weak::upgrade: the compare-exchange of fetch_update; on success the Trc
\* is built on a fresh cell, on failure the closure runs on the value found
UpgradeCas(t) ==
    /\ At(t, "upgrade_cas")
    /\ \E cur \in Load(atomicref) :
         IF cur = reg[t].n
         THEN /\ atomicref' = Store(atomicref, cur + 1)
              /\ NewCell(t)
              /\ Done(t, "Weak::upgrade", "Some")
         ELSE /\ UpgradeClosure(t, cur)
              /\ UNCHANGED <<atomicref, cells>>
    /\ ub' = (ub \/ mem # "valid")
    /\ UNCHANGED <<weakcount, slot, mem, handles, freeCount>>

\* mutant of try_unwrap: the test of the local count is missing
try_unwrap_NoLocalTest(t, c) ==
    /\ HoldsTrc(t, c)
    /\ \E s \in Load(atomicref) :
         IF s # 1
         THEN /\ Goto(t, "done", [NoReg EXCEPT !.op = "Trc::try_unwrap",
                                            !.cell = c, !.res = "Err"])
              /\ ub' = (ub \/ mem # "valid")
              /\ UNCHANGED <<threadref, trcs>>
         ELSE \E v \in CellRead(c) :
                /\ ub' = (ub \/ mem # "valid" \/ cellState[c] # "live")
                /\ threadref' = CellWrite(c, sub_value(v, 1))
                /\ trcs' = [trcs EXCEPT ![c] = @ - 1]
                /\ Goto(t, "read_out",
                        [NoReg EXCEPT !.op = "Trc::try_unwrap", !.cell = c])
    /\ UNCHANGED <<shared, slot, mem, cellState, cellOwner, nextCell, handles,
                   freeCount>>

\* Trc::try_unwrap: the load of atomicref and the test of the local count
try_unwrap(t, c) ==
    /\ HoldsTrc(t, c)
    /\ \E s \in Load(atomicref) :
         IF s # 1
         THEN /\ Goto(t, "done", [NoReg EXCEPT !.op = "Trc::try_unwrap",
                                            !.cell = c, !.res = "Err"])
              /\ ub' = (ub \/ mem # "valid")
              /\ UNCHANGED <<threadref, trcs>>
         ELSE \E v \in CellRead(c) :
                /\ ub' = (ub \/ mem # "valid" \/ cellState[c] # "live")
                /\ IF v # 1
                   THEN /\ Goto(t, "done", [NoReg EXCEPT !.op = "Trc::try_unwrap",
                                            !.cell = c, !.res = "Err"])
                        /\ UNCHANGED <<threadref, trcs>>
                   ELSE /\ threadref' = CellWrite(c, sub_value(v, 1))
                        /\ trcs' = [trcs EXCEPT ![c] = @ - 1]
                        /\ Goto(t, "read_out",
                                [NoReg EXCEPT !.op = "Trc::try_unwrap", !.cell = c])
    /\ UNCHANGED <<shared, slot, mem, cellState, cellOwner, nextCell, handles,
                   freeCount>>

\* mutant of into_inner: atomicref is read but not decremented
into_inner_NoSub(t, c) ==
    /\ HoldsTrc(t, c)
    /\ trcs' = [trcs EXCEPT ![c] = @ - 1]
    /\ \E prev \in Load(atomicref) :
         IF prev # 1
         THEN /\ cellState' = BoxFree(c)
              /\ Done(t, "Trc::into_inner", "None")
              /\ ub' = (ub \/ mem # "valid" \/ cellState[c] # "live")
         ELSE \E v \in CellRead(c) :
                /\ ub' = (ub \/ mem # "valid" \/ cellState[c] # "live")
                /\ IF v # 1
                   THEN /\ cellState' = BoxFree(c)
                        /\ Done(t, "Trc::into_inner", "None")
                   ELSE /\ UNCHANGED cellState
                        /\ Goto(t, "read_out",
                                [NoReg EXCEPT !.op = "Trc::into_inner", !.cell = c])
    /\ UNCHANGED <<shared, slot, mem, threadref, cellOwner, nextCell, handles,
                   freeCount>>

\* Trc::into_inner: fetch_sub on atomicref, then the test of the local count
into_inner(t, c) ==
    /\ HoldsTrc(t, c)
    /\ trcs' = [trcs EXCEPT ![c] = @ - 1]
    /\ \E prev \in Load(atomicref) :
         /\ atomicref' = Store(atomicref, sub_value(prev, 1))
         /\ IF prev # 1
            THEN /\ cellState' = BoxFree(c)
                 /\ Done(t, "Trc::into_inner", "None")
                 /\ ub' = (ub \/ mem # "valid" \/ cellState[c] # "live")
            ELSE \E v \in CellRead(c) :
                   /\ ub' = (ub \/ mem # "valid" \/ cellState[c] # "live")
                   /\ IF v # 1
                      THEN /\ cellState' = BoxFree(c)
                           /\ Done(t, "Trc::into_inner", "None")
                      ELSE /\ UNCHANGED cellState
                           /\ Goto(t, "read_out",
                                   [NoReg EXCEPT !.op = "Trc::into_inner", !.cell = c])
    /\ UNCHANGED <<weakcount, slot, mem, threadref, cellOwner, nextCell, handles,
                   freeCount>>

\* Trc::get_mut: compare_exchange(1, usize::MAX) on weakcount
get_mut(t, c) ==
    /\ HoldsTrc(t, c)
    /\ \E w \in Load(weakcount) :
         IF w = 1
         THEN /\ weakcount' = Store(weakcount, USIZE_MAX)
              /\ Goto(t, "get_mut_load", [NoReg EXCEPT !.op = "Trc::get_mut", !.cell = c])
         ELSE /\ Done(t, "Trc::get_mut", "None")
              /\ UNCHANGED weakcount
    /\ ub' = (ub \/ mem # "valid")
    /\ UNCHANGED <<atomicref, slot, mem, cells, handles, freeCount>>

\* Trc::get_mut: unique = (atomicref.load() == 1)
GetMutLoad(t) ==
    /\ At(t, "get_mut_load")
    /\ \E s \in Load(atomicref) :
         Goto(t, "get_mut_store", [reg[t] EXCEPT !.n = IF s = 1 THEN 1 ELSE 0])
    /\ ub' = (ub \/ mem # "valid")
    /\ UNCHANGED <<shared, slot, mem, cells, handles, freeCount>>

\* mutant of GetMutStore: weakcount is put back only when the borrow is granted
GetMutStore_NoRestore(t) ==
    /\ At(t, "get_mut_store")
    /\ \E v \in CellRead(reg[t].cell) :
         IF reg[t].n = 1 /\ v = 1
         THEN /\ weakcount' = Store(weakcount, 1)
              /\ Goto(t, "done", [reg[t] EXCEPT !.res = "Some", !.n = 0])
         ELSE /\ UNCHANGED weakcount
              /\ Goto(t, "done", [reg[t] EXCEPT !.res = "None", !.n = 0])
    /\ ub' = (ub \/ mem # "valid" \/ cellState[reg[t].cell] # "live")
    /\ UNCHANGED <<atomicref, slot, mem, cells, handles, freeCount>>

\* Trc::get_mut: weakcount.store(1), then the test of unique and the local count
GetMutStore(t) ==
    /\ At(t, "get_mut_store")
    /\ weakcount' = Store(weakcount, 1)
    /\ \E v \in CellRead(reg[t].cell) :
         IF reg[t].n = 1 /\ v = 1
         THEN Goto(t, "done", [reg[t] EXCEPT !.res = "Some", !.n = 0])
         ELSE Goto(t, "done", [reg[t] EXCEPT !.res = "None", !.n = 0])
    /\ ub' = (ub \/ mem # "valid" \/ cellState[reg[t].cell] # "live")
    /\ UNCHANGED <<atomicref, slot, mem, cells, handles, freeCount>>

\* a write through the &mut T that get_mut returned
GetMutWrite(t) ==
    /\ At(t, "done")
    /\ reg[t].op = "Trc::get_mut"
    /\ reg[t].res = "Some"
    /\ \E x \in Values \ {data} : data' = x
    /\ ub' = (ub \/ mem # "valid" \/ payload # "live")
    /\ UNCHANGED <<shared, payload, dropCount, moveCount, mem, cells, handles,
                   pc, reg, freeCount>>

\* impl Deref for Trc: a read of the payload; the value read is kept in reg.n
Deref(t, c) ==
    /\ HoldsTrc(t, c)
    /\ \E x \in (IF mem = "valid" /\ payload = "live" THEN {data} ELSE Values) :
         Goto(t, "done", [NoReg EXCEPT !.op = "Trc::deref", !.cell = c, !.n = x])
    /\ ub' = (ub \/ mem # "valid" \/ payload # "live")
    /\ UNCHANGED <<shared, slot, mem, cells, handles, freeCount>>

\* the caller takes the result of the operation (and ends a &mut borrow)
Return(t) ==
    /\ At(t, "done")
    /\ Idle(t)
    /\ UNCHANGED <<shared, slot, mem, cells, handles, freeCount, ub>>

Next ==
    \E t \in Threads :
      \/ \E c \in Cells : TrcClone(t, c)
      \/ \E c \in Cells : TrcDrop(t, c)
      \/ \E c \in Cells : FromTrc(t, c)
      \/ \E c \in Cells : downgrade(t, c)
      \/ \E c \in Cells : try_unwrap(t, c)
      \/ \E c \in Cells : into_inner(t, c)
      \/ \E c \in Cells : get_mut(t, c)
      \/ \E c \in Cells : Deref(t, c)
      \/ GetMutLoad(t)
      \/ GetMutStore(t)
      \/ GetMutWrite(t)
      \/ SharedClone(t)
      \/ ToTrc(t)
      \/ SharedDrop(t)
      \/ SharedDropLoadWeak(t)
      \/ WeakClone(t)
      \/ WeakDrop(t)
      \/ UpgradeLoad(t)
      \/ UpgradeCas(t)
      \/ ReadOut(t)
      \/ DropInPlace(t)
      \/ ReleaseBaseline(t)
      \/ Dealloc(t)
      \/ \E c \in Cells : IntoRaw(t, c)
      \/ FromRaw(t)
      \/ SharedIntoRaw(t)
      \/ SharedFromRaw(t)
      \/ Return(t)

Spec == Init /\ [][Next]_vars

\* clone, drop and the conversions between the three kinds of handle; no
\* try_unwrap, into_inner or get_mut
NextDrop ==
    \E t \in Threads :
      \/ \E c \in Cells : TrcClone(t, c)
      \/ \E c \in Cells : TrcDrop(t, c)
      \/ \E c \in Cells : FromTrc(t, c)
      \/ \E c \in Cells : downgrade(t, c)
      \/ \E c \in Cells : Deref(t, c)
      \/ SharedClone(t)
      \/ ToTrc(t)
      \/ SharedDrop(t)
      \/ SharedDropLoadWeak(t)
      \/ WeakClone(t)
      \/ WeakDrop(t)
      \/ UpgradeLoad(t)
      \/ UpgradeCas(t)
      \/ DropInPlace(t)
      \/ ReleaseBaseline(t)
      \/ Dealloc(t)
      \/ Return(t)

SpecDrop == Init /\ [][NextDrop]_vars

\* strong handles only: clone, drop, reads and the Trc <-> SharedTrc conversions
NextStrong ==
    \E t \in Threads :
      \/ \E c \in Cells : TrcClone(t, c)
      \/ \E c \in Cells : TrcDrop(t, c)
      \/ \E c \in Cells : FromTrc(t, c)
      \/ \E c \in Cells : Deref(t, c)
      \/ SharedClone(t)
      \/ ToTrc(t)
      \/ SharedDrop(t)
      \/ SharedDropLoadWeak(t)
      \/ DropInPlace(t)
      \/ ReleaseBaseline(t)
      \/ Dealloc(t)
      \/ Return(t)

SpecStrong == Init /\ [][NextStrong]_vars

\* NextStrong and the conversion of a Trc by value into a SharedTrc
NextFrom ==
    \E t \in Threads :
      \/ \E c \in Cells : TrcClone(t, c)
      \/ \E c \in Cells : TrcDrop(t, c)
      \/ \E c \in Cells : FromTrc(t, c)
      \/ \E c \in Cells : SharedFrom(t, c)
      \/ \E c \in Cells : Deref(t, c)
      \/ FromRelease(t)
      \/ SharedClone(t)
      \/ ToTrc(t)
      \/ SharedDrop(t)
      \/ SharedDropLoadWeak(t)
      \/ DropInPlace(t)
      \/ ReleaseBaseline(t)
      \/ Dealloc(t)
      \/ Return(t)

SpecFrom == Init /\ [][NextFrom]_vars

\* every strong handle ends in Trc::into_inner
NextInner ==
    \E t \in Threads :
      \/ \E c \in Cells : TrcClone(t, c)
      \/ \E c \in Cells : FromTrc(t, c)
      \/ \E c \in Cells : into_inner(t, c)
      \/ SharedClone(t)
      \/ ToTrc(t)
      \/ ReadOut(t)
      \/ ReleaseBaseline(t)
      \/ Dealloc(t)
      \/ Return(t)

SpecInner == Init /\ [][NextInner]_vars

\* clone, drop, the conversions between the three kinds of handle and
\* Trc::try_unwrap; no into_inner or get_mut
NextUnwrap ==
    \E t \in Threads :
      \/ \E c \in Cells : TrcClone(t, c)
      \/ \E c \in Cells : TrcDrop(t, c)
      \/ \E c \in Cells : FromTrc(t, c)
      \/ \E c \in Cells : downgrade(t, c)
      \/ \E c \in Cells : try_unwrap(t, c)
      \/ \E c \in Cells : Deref(t, c)
      \/ SharedClone(t)
      \/ ToTrc(t)
      \/ SharedDrop(t)
      \/ SharedDropLoadWeak(t)
      \/ WeakClone(t)
      \/ WeakDrop(t)
      \/ UpgradeLoad(t)
      \/ UpgradeCas(t)
      \/ ReadOut(t)
      \/ DropInPlace(t)
      \/ ReleaseBaseline(t)
      \/ Dealloc(t)
      \/ Return(t)

SpecUnwrap == Init /\ [][NextUnwrap]_vars

\* NextUnwrap and Trc::get_mut: every operation but into_inner
NextDecline ==
    \E t \in Threads :
      \/ \E c \in Cells : TrcClone(t, c)
      \/ \E c \in Cells : TrcDrop(t, c)
      \/ \E c \in Cells : FromTrc(t, c)
      \/ \E c \in Cells : downgrade(t, c)
      \/ \E c \in Cells : try_unwrap(t, c)
      \/ \E c \in Cells : get_mut(t, c)
      \/ \E c \in Cells : Deref(t, c)
      \/ GetMutLoad(t)
      \/ GetMutStore(t)
      \/ GetMutWrite(t)
      \/ SharedClone(t)
      \/ ToTrc(t)
      \/ SharedDrop(t)
      \/ SharedDropLoadWeak(t)
      \/ WeakClone(t)
      \/ WeakDrop(t)
      \/ UpgradeLoad(t)
      \/ UpgradeCas(t)
      \/ ReadOut(t)
      \/ DropInPlace(t)
      \/ ReleaseBaseline(t)
      \/ Dealloc(t)
      \/ Return(t)

SpecDecline == Init /\ [][NextDecline]_vars

\* Trc::new_cyclic from the call of data_fn on, with the Weak operations
\* during and after the construction and clone, drop and reads of the Trc
NextCyclic ==
    \E t \in Threads :
      \/ CyclicWrite(t)
      \/ CyclicRaise(t)
      \/ WeakClone(t)
      \/ WeakDrop(t)
      \/ UpgradeLoad(t)
      \/ UpgradeCas(t)
      \/ \E c \in Cells : TrcClone(t, c)
      \/ \E c \in Cells : TrcDrop(t, c)
      \/ \E c \in Cells : Deref(t, c)
      \/ DropInPlace(t)
      \/ ReleaseBaseline(t)
      \/ Dealloc(t)
      \/ Return(t)

SpecCyclic == InitCyclic /\ [][NextCyclic]_vars

\* the raw-pointer functions with clone, drop, from_trc and the Weak handles;
\* in this scenario a new cell is made by Trc::from_raw only
NextRaw ==
    \E t \in Threads :
      \/ \E c \in Cells : TrcClone(t, c)
      \/ \E c \in Cells : TrcDrop(t, c)
      \/ \E c \in Cells : FromTrc(t, c)
      \/ \E c \in Cells : downgrade(t, c)
      \/ \E c \in Cells : Deref(t, c)
      \/ \E c \in Cells : IntoRaw(t, c)
      \/ FromRaw(t)
      \/ SharedIntoRaw(t)
      \/ SharedFromRaw(t)
      \/ SharedClone(t)
      \/ SharedDrop(t)
      \/ SharedDropLoadWeak(t)
      \/ WeakClone(t)
      \/ WeakDrop(t)
      \/ DropInPlace(t)
      \/ ReleaseBaseline(t)
      \/ Dealloc(t)
      \/ Return(t)

SpecRaw == Init /\ [][NextRaw]_vars

\* construction of a Trc<[T]> from a slice or an iterator, then clone and
\* drop of the handles
NextSlice ==
    \E t \in Threads :
      \/ SliceCollect(t)
      \/ SliceAlloc(t)
      \/ SliceHeader(t)
      \/ SliceFill(t)
      \/ SliceBuild(t)
      \/ \E c \in Cells : TrcClone(t, c)
      \/ \E c \in Cells : TrcDrop(t, c)
      \/ DropInPlace(t)
      \/ ReleaseBaseline(t)
      \/ Dealloc(t)
      \/ Return(t)

SpecSlice == InitSlice /\ [][NextSlice]_vars

\* the four comparisons on a pair of handles
NextCmp ==
    \E t \in Threads :
      \/ CmpGe(t)
      \/ CmpLe(t)
      \/ CmpGt(t)
      \/ CmpLt(t)
      \/ CmpReturn(t)

SpecCmp == InitCmp /\ [][NextCmp]_vars

\* every Trc is alone on its thread-context (no Trc::clone): handles pass
\* through SharedTrc to new thread-contexts and every Trc ends in into_inner;
\* Weak handles are made and dropped meanwhile
NextOwn ==
    \E t \in Threads :
      \/ \E c \in Cells : FromTrc(t, c)
      \/ \E c \in Cells : downgrade(t, c)
      \/ \E c \in Cells : into_inner(t, c)
      \/ SharedClone(t)
      \/ ToTrc(t)
      \/ WeakDrop(t)
      \/ ReadOut(t)
      \/ ReleaseBaseline(t)
      \/ Dealloc(t)
      \/ Return(t)

SpecOwn == Init /\ [][NextOwn]_vars

\* finitely many operations around Weak::upgrade and Trc::get_mut: handles are
\* made, cloned and converted but none is dropped, so that only finitely many
\* operations change atomicref and every access is to valid memory
NextLive ==
    \E t \in Threads :
      \/ \E c \in Cells : TrcClone(t, c)
      \/ \E c \in Cells : FromTrc(t, c)
      \/ \E c \in Cells : downgrade(t, c)
      \/ \E c \in Cells : get_mut(t, c)
      \/ GetMutLoad(t)
      \/ GetMutStore(t)
      \/ SharedClone(t)
      \/ ToTrc(t)
      \/ WeakClone(t)
      \/ UpgradeLoad(t)
      \/ UpgradeCas(t)
      \/ Return(t)

\* the next step of an operation that thread t has begun
Continue(t) ==
    \/ GetMutLoad(t)
    \/ GetMutStore(t)
    \/ UpgradeCas(t)

\* a thread that is inside an operation is scheduled again and again
SpecLive == Init /\ [][NextLive]_vars /\ \A t \in Threads : WF_vars(Continue(t))

\* ---- the atomic accesses of each operation, with their memory orderings ----

\* one access: what it does, to which counter, with which Ordering; ret tells
\* whether the operation may return right after it
Acc(kind, on, ord, ret) == [kind |-> kind, on |-> on, ord |-> ord, ret |-> ret]

\* `Weak { data };` and drop(Weak { data }): impl Drop for Weak run in place
Code_WeakDrop ==
    << Acc("sub", "weakcount", "Release", TRUE),
       Acc("fence", "none", "Acquire", FALSE),
       Acc("dealloc", "none", "none", TRUE) >>

Code_FromTrc     == << Acc("add", "atomicref", "Acquire", TRUE) >>
Code_SharedClone == << Acc("add", "atomicref", "AcqRel", TRUE) >>
Code_NewCyclic   == << Acc("add", "atomicref", "AcqRel", TRUE) >>
Code_Downgrade   == << Acc("add", "weakcount", "Acquire", TRUE) >>
Code_WeakClone   == << Acc("add", "weakcount", "Relaxed", TRUE) >>

\* fetch_update(Acquire, Relaxed, ..): the load, then the compare-exchange
\* that adds 1
Code_Upgrade ==
    << Acc("load", "atomicref", "Relaxed", TRUE),
       Acc("add", "atomicref", "Acquire", TRUE) >>

Code_GetMut ==
    << Acc("cas", "weakcount", "Acquire", TRUE),
       Acc("load", "atomicref", "Acquire", FALSE),
       Acc("store", "weakcount", "Release", TRUE) >>

Code_SharedDrop ==
    << Acc("sub", "atomicref", "Release", TRUE),
       Acc("load", "weakcount", "Acquire", TRUE),
       Acc("fence", "none", "Acquire", FALSE),
       Acc("drop_in_place", "none", "none", FALSE) >> \o Code_WeakDrop

\* mutant of Code_TrcDrop: the fence before drop_in_place is missing
Code_TrcDrop_NoFence ==
    << Acc("sub", "atomicref", "Release", TRUE),
       Acc("drop_in_place", "none", "none", FALSE) >> \o Code_WeakDrop

Code_TrcDrop ==
    << Acc("sub", "atomicref", "Release", TRUE),
       Acc("fence", "none", "Acquire", FALSE),
       Acc("drop_in_place", "none", "none", FALSE) >> \o Code_WeakDrop

Code_TryUnwrap ==
    << Acc("load", "atomicref", "Acquire", TRUE),
       Acc("fence", "none", "Acquire", FALSE),
       Acc("read", "none", "none", FALSE) >> \o Code_WeakDrop

Code_IntoInner ==
    << Acc("sub", "atomicref", "Release", TRUE),
       Acc("fence", "none", "Acquire", FALSE),
       Acc("read", "none", "none", FALSE) >> \o Code_WeakDrop

AtomicOps == {"SharedTrc::from_trc", "SharedTrc::clone", "SharedTrc::drop",
              "Trc::new_cyclic", "Trc::try_unwrap", "Trc::into_inner",
              "Trc::get_mut", "Trc::downgrade", "Trc::drop", "Weak::drop",
              "Weak::upgrade", "Weak::clone"}

Code(f) ==
    CASE f = "SharedTrc::from_trc" -> Code_FromTrc
      [] f = "SharedTrc::clone"    -> Code_SharedClone
      [] f = "SharedTrc::drop"     -> Code_SharedDrop
      [] f = "Trc::new_cyclic"     -> Code_NewCyclic
      [] f = "Trc::try_unwrap"     -> Code_TryUnwrap
      [] f = "Trc::into_inner"     -> Code_IntoInner
      [] f = "Trc::get_mut"        -> Code_GetMut
      [] f = "Trc::downgrade"      -> Code_Downgrade
      [] f = "Trc::drop"           -> Code_TrcDrop
      [] f = "Weak::drop"          -> Code_WeakDrop
      [] f = "Weak::upgrade"       -> Code_Upgrade
      [] f = "Weak::clone"         -> Code_WeakClone

\* thread t calls operation f and performs its first atomic access
OrdCall(t) ==
    /\ At(t, "idle")
    /\ \E f \in AtomicOps : Goto(t, "atomics", [NoReg EXCEPT !.op = f, !.n = 1])
    /\ UNCHANGED <<shared, slot, mem, cells, handles, freeCount, ub>>

\* thread t performs the next access of its operation
OrdStep(t) ==
    /\ At(t, "atomics")
    /\ reg[t].n < Len(Code(reg[t].op))
    /\ Goto(t, "atomics", [reg[t] EXCEPT !.n = @ + 1])
    /\ UNCHANGED <<shared, slot, mem, cells, handles, freeCount, ub>>

\* the operation returns: at a test that ends it, or at its end
OrdReturn(t) ==
    /\ At(t, "atomics")
    /\ Code(reg[t].op)[reg[t].n].ret
    /\ Idle(t)
    /\ UNCHANGED <<shared, slot, mem, cells, handles, freeCount, ub>>

NextOrder == \E t \in Threads : OrdCall(t) \/ OrdStep(t) \/ OrdReturn(t)

SpecOrder == Init /\ [][NextOrder]_vars

\* the operations that increment atomicref or weakcount, with handles leaked
\* by core::mem::forget so that the counters can climb to MAX_REFCOUNT and
\* beyond
NextOverflow ==
    \E t \in Threads :
      \/ \E c \in Cells : FromTrc(t, c)
      \/ \E c \in Cells : downgrade(t, c)
      \/ SharedClone(t)
      \/ WeakClone(t)
      \/ UpgradeLoad(t)
      \/ UpgradeCas(t)
      \/ ForgetShared(t)
      \/ ForgetWeak(t)
      \/ Return(t)

SpecOverflow == Init /\ [][NextOverflow]_vars

\* ---- vocabulary of the properties ----
LiveTrcs    == {c \in Cells : trcs[c] > 0}
StrongAlive == LiveTrcs # {} \/ nShared > 0
Quiescent   == \A t \in Threads : pc[t] \in {"idle", "done"}
Returned(t, o, r) == pc[t] = "done" /\ reg[t].op = o /\ reg[t].res = r
Gone        == dropCount + moveCount

\* C1: over all interleavings of the operations on the handles of one
\* allocation, the payload is destroyed or moved out at most once in total
\* and the allocation's memory is freed at most once.
C1_AtMostOnce == Gone <= 1 /\ freeCount <= 1

\* C2: while a Trc or SharedTrc handle is alive (the handle being consumed by
\* a successful try_unwrap / into_inner is not counted in trcs), the payload
\* is neither destroyed nor moved out and the memory is not freed.
C2_StrongKeepsAlive == StrongAlive => payload = "live" /\ mem = "valid"

\* C3: when Weak::upgrade races with the drop of the last strong handle, an
\* upgrade that returns Some returns a handle to a live payload, and the
\* payload stays live and the memory valid as long as the returned Trc or any
\* other strong handle exists; no step of the race is undefined behaviour.
C3_UpgradeSound ==
    /\ \A t \in Threads :
         Returned(t, "Weak::upgrade", "Some") => payload = "live" /\ mem = "valid"
    /\ LiveTrcs # {} => payload = "live" /\ mem = "valid"
    /\ ~ub

\* C3 witness: an upgrade returned Some although every handle of the
\* original thread-context has been dropped meanwhile
C3_Witness ==
    \E t \in Threads :
      /\ Returned(t, "Weak::upgrade", "Some")
      /\ cellState[1] = "freed"
      /\ atomicref = 1
      /\ payload = "live"

\* C4: between operations, the payload is live if and only if the strong
\* count is greater than 0 (as long as the allocation exists).
C4_LiveIffStrong ==
    Quiescent /\ mem = "valid" => (payload = "live" <=> atomicref > 0)

\* C5: the weak count is 0 only when the strong count is 0 and the payload
\* has been destroyed or moved out, and the memory is freed only when the
\* weak count has been taken to 0.
C5_WeakZeroLast ==
    /\ weakcount = 0 => atomicref = 0 /\ payload # "live"
    /\ mem = "freed" => weakcount = 0

\* C6: once the last strong handle has been dropped, the payload has been
\* destroyed exactly once, the memory stays valid while a Weak handle is held
\* and is freed, once, when none is left.
C6_WeakOutlivesStrong ==
    Quiescent /\ ~StrongAlive =>
        /\ dropCount = 1
        /\ nWeak > 0 => mem = "valid" /\ freeCount = 0
        /\ nWeak = 0 => mem = "freed" /\ freeCount = 1

\* C7: with Trc and SharedTrc handles moved between two threads, every read
\* through a handle yields the value given to Trc::new, and once all handles
\* are dropped (in any order or concurrently) strong is 0, the payload was
\* destroyed exactly once and the memory freed exactly once.
C7_RoundTrip ==
    /\ ~ub
    /\ \A t \in Threads :
         pc[t] = "done" /\ reg[t].op = "Trc::deref" => reg[t].n = PayloadInit
    /\ StrongAlive => payload = "live" /\ mem = "valid"
    /\ Quiescent /\ ~StrongAlive =>
         /\ atomicref = 0
         /\ dropCount = 1 /\ moveCount = 0
         /\ freeCount = 1 /\ mem = "freed"

\* C7 witness: the original cell and a cell minted by to_trc on the second
\* thread have both been released and the allocation is gone
C7_Witness ==
    /\ Quiescent /\ ~StrongAlive
    /\ cellOwner[2] = 2
    /\ cellState[1] = "freed" /\ cellState[2] = "freed"
    /\ mem = "freed"

\* C8: a SharedTrc drop that takes strong from 1 to 0 goes on to destroy the
\* payload (and then releases the baseline weak unit), whatever the number of
\* Weak handles.
C8_SharedDropTeardown ==
    [][\A t \in Threads :
         pc[t] = "shared_load_weak" /\ pc'[t] # "shared_load_weak"
           => pc'[t] = "drop_in_place"]_vars

\* C9: whenever get_mut returns Some (in an execution without undefined
\* behaviour), the handle it was called on is the only handle of any kind to
\* the allocation: strong = 1, weak = 1, local count = 1.
C9_GetMutExclusive ==
    \A t \in Threads :
      Returned(t, "Trc::get_mut", "Some") /\ ~ub =>
        /\ LiveTrcs = {reg[t].cell} /\ trcs[reg[t].cell] = 1
        /\ nShared = 0 /\ nWeak = 0
        /\ atomicref = 1 /\ weakcount = 1

\* C10: when into_inner has been called on every clone, exactly one of the
\* calls has returned the payload (the payload was moved out exactly once).
C10_ExactlyOneInner ==
    Quiescent /\ ~StrongAlive => moveCount = 1

\* thread t takes a step of operation o from position p
StepOf(t, o, p) == pc[t] = p /\ pc'[t] # p /\ reg[t].op = o

\* C11: Trc::try_unwrap, called on a handle whose allocation and cell are
\* valid memory, takes the success path iff atomicref = 1 and the handle's
\* local count = 1 at the call, whatever the number of Weak handles.  A
\* decline returns Err for the same handle and changes nothing.  On success
\* the payload is moved out exactly once (it was live, it is moved, no drop
\* ran on it), the handle's cell is released, and over the whole operation
\* weakcount goes down by exactly 1 (at the release of the baseline) while
\* try_unwrap's other steps leave it alone.
C11_TryUnwrap ==
    [][\A t \in Threads :
         LET r == reg'[t]
             c == reg'[t].cell
             o == "Trc::try_unwrap" IN
         /\ (pc[t] = "idle" /\ r.op = o /\ mem = "valid" /\ cellState[c] = "live")
            => /\ (pc'[t] = "read_out") <=> (atomicref = 1 /\ threadref[c] = 1)
               /\ pc'[t] # "read_out"
                  => /\ pc'[t] = "done" /\ r.res = "Err"
                     /\ UNCHANGED <<shared, slot, mem, cells, handles, freeCount>>
               /\ pc'[t] = "read_out"
                  => /\ trcs'[c] = trcs[c] - 1
                     /\ UNCHANGED <<shared, slot, mem, handles>>
         /\ (StepOf(t, o, "read_out") /\ ~ub')
            => /\ payload = "live" /\ payload' = "moved"
               /\ moveCount = 0 /\ moveCount' = 1 /\ dropCount' = 0
               /\ cellState'[reg[t].cell] = "freed"
               /\ UNCHANGED <<shared, mem, handles>>
         /\ (StepOf(t, o, "release_weak") /\ ~ub')
            => /\ weakcount' = weakcount - 1
               /\ UNCHANGED <<atomicref, slot, cells, handles>>
         /\ (StepOf(t, o, "dealloc") /\ ~ub')
            => UNCHANGED <<shared, slot, cells, handles>>
         /\ (pc[t] # "done" /\ pc'[t] = "done" /\ r.op = o /\ r.res = "Ok" /\ ~ub')
            => payload' = "moved" /\ moveCount' = 1 /\ dropCount' = 0
      ]_vars

\* try_unwrap has returned Ok while explicit Weak handles exist
C11_Witness ==
    \E t \in Threads :
      /\ Returned(t, "Trc::try_unwrap", "Ok")
      /\ nWeak > 0 /\ ~ub /\ mem = "valid" /\ moveCount = 1

\* C12: a decline (Trc::get_mut returning None, Trc::try_unwrap returning Err,
\* Weak::upgrade returning None) leaves atomicref, weakcount, every local
\* count and the payload as they were before the call: no step of these
\* operations that precedes or makes the decline changes any of them, except
\* that a get_mut whose compare-exchange on weakcount succeeded found 1 there
\* and, when it then declines, stores 1 back.
C12_DeclineNoEffect ==
    [][\A t \in Threads :
         LET o == reg'[t].op
             frame == UNCHANGED <<atomicref, slot, mem, cells, handles, freeCount>> IN
         /\ ( /\ pc[t] # "done" /\ pc'[t] = "done" /\ ~ub'
              /\ \/ o = "Trc::get_mut" /\ reg'[t].res = "None"
                 \/ o = "Trc::try_unwrap" /\ reg'[t].res = "Err"
                 \/ o = "Weak::upgrade" /\ reg'[t].res = "None" )
            => /\ frame
               /\ IF pc[t] = "get_mut_store" THEN weakcount' = 1
                                             ELSE weakcount' = weakcount
         /\ (pc[t] = "idle" /\ pc'[t] = "get_mut_load" /\ ~ub')
            => frame /\ weakcount = 1
         /\ (pc[t] = "get_mut_load" /\ pc'[t] = "get_mut_store" /\ ~ub')
            => frame /\ weakcount' = weakcount
         /\ (pc'[t] = "upgrade_cas" /\ reg'[t] # reg[t] /\ ~ub')
            => frame /\ weakcount' = weakcount
      ]_vars

\* get_mut has declined after its compare-exchange on weakcount succeeded:
\* another strong owner exists, and weakcount is 1 again
C12_Witness ==
    \E t \in Threads :
      /\ Returned(t, "Trc::get_mut", "None")
      /\ reg[t].cell # 0
      /\ atomicref = 2 /\ weakcount = 1 /\ ~ub

\* C13: with Trc::clone and Trc drop applied to the handles of a cell (trcs[c]
\* is 1 for the handle the cell was made for, plus 1 per clone, minus 1 per
\* drop), Trc::local_count through any surviving handle of the cell reads
\* exactly that number; it is at least 1 and never wraps below 0.
C13_LocalCount ==
    \A c \in Cells :
      /\ trcs[c] > 0 => local_count(c) = {trcs[c]}
      /\ cellState[c] = "live" => threadref[c] \in 1 .. MAX_REFCOUNT
      /\ trcs[c] >= 0

\* a cell shared by two handles after a clone, next to a cell with one handle
C13_Witness ==
    \E c, d \in Cells :
      /\ trcs[c] = 2 /\ local_count(c) = {2}
      /\ trcs[d] = 1 /\ local_count(d) = {1}

\* C14: between operations, every cell that is still allocated holds the
\* number of live Trc handles that share it, and a cell that has been
\* released has no live Trc handle left on it.
C14_CellCountsHandles ==
    (Quiescent /\ ~ub) =>
        \A c \in Cells :
          /\ cellState[c] = "live" => threadref[c] = trcs[c]
          /\ cellState[c] = "freed" => trcs[c] = 0

\* C15: a step that adds a handle to an existing cell (Trc::clone) raises
\* that cell's count by 1 and changes nothing else: atomicref, weakcount, the
\* payload, the memory and the other cells are as before.  A step that
\* removes a handle from a cell whose count is above 1 (a Trc drop) lowers
\* that count by 1, changes nothing else and starts no teardown.
C15_CloneDropFrame ==
    [][\A c \in Cells :
         LET others == \A d \in Cells \ {c} : threadref'[d] = threadref[d]
             frame  == UNCHANGED <<shared, slot, mem, cellState, handles, freeCount>> IN
         /\ (cellState[c] = "live" /\ trcs'[c] = trcs[c] + 1)
            => threadref'[c] = threadref[c] + 1 /\ others /\ frame
         /\ (cellState[c] = "live" /\ trcs'[c] = trcs[c] - 1 /\ threadref[c] > 1)
            => /\ threadref'[c] = threadref[c] - 1 /\ others /\ frame
               /\ \A t \in Threads : pc'[t] = "idle" \/ pc'[t] = pc[t]
      ]_vars

\* two cells, one of them shared by a clone, and atomicref counts the two
\* cells only
C15_Witness ==
    \E c, d \in Cells :
      /\ trcs[c] = 2 /\ threadref[c] = 2 /\ trcs[d] = 1
      /\ nShared = 0 /\ atomicref = 2 /\ weakcount = 1 + nWeak

\* C16: between operations, while the payload is live, atomicref equals the
\* number of cells with a live Trc handle, plus the number of live SharedTrc
\* handles, plus the number of raw pointers exported by into_raw and not yet
\* given back to from_raw.
C16_StrongCount ==
    (Quiescent /\ ~ub /\ mem = "valid" /\ payload = "live") =>
        atomicref = Cardinality(LiveTrcs) + nShared + nRaw

\* C17: between operations, while a strong owner exists, weakcount equals
\* 1 + the number of live explicit Weak handles.
C17_WeakCount ==
    (Quiescent /\ ~ub /\ mem = "valid" /\ (StrongAlive \/ nRaw > 0)) =>
        weakcount = 1 + nWeak

\* C18: SharedTrc::to_trc can be taken by any idle thread whenever a
\* SharedTrc exists (it has no failure path), and the step that turns a
\* SharedTrc into a Trc leaves atomicref, weakcount, the payload and the other
\* cells as they were and yields a handle on a fresh cell that holds 1, with
\* the payload live.
C18_ToTrcFrame ==
    [][/\ \A t \in Threads :
            (At(t, "idle") /\ nShared > 0 /\ nextCell + Reserved(t) <= MaxCells)
                => ENABLED ToTrc(t)
       /\ (nShared' = nShared - 1 /\ nextCell' = nextCell + 1)
            => /\ UNCHANGED <<shared, slot, mem, nWeak, nRaw, freeCount, ub>>
               /\ cellState[nextCell] = "none"
               /\ cellState'[nextCell] = "live"
               /\ threadref'[nextCell] = 1 /\ trcs'[nextCell] = 1
               /\ \A d \in Cells \ {nextCell} :
                    /\ threadref'[d] = threadref[d]
                    /\ cellState'[d] = cellState[d]
                    /\ trcs'[d] = trcs[d]
               /\ payload' = "live" /\ mem' = "valid" /\ atomicref' >= 1
      ]_vars

\* to_trc has acted on the last handle: the first cell is gone, no SharedTrc
\* or Weak is left, and the only owner is the Trc on the fresh cell
C18_Witness ==
    /\ cellState[1] = "freed" /\ trcs[1] = 0
    /\ nShared = 0 /\ nWeak = 0
    /\ cellState[2] = "live" /\ trcs[2] = 1 /\ threadref[2] = 1
    /\ atomicref = 1 /\ weakcount = 1 /\ payload = "live" /\ ~ub

\* C19: in a construction by Trc::new_cyclic, an upgrade of the lent Weak or
\* of a clone of it, on any thread, that completes before new_cyclic has
\* built its Trc yields None and never gets as far as the compare-exchange;
\* once new_cyclic has returned, an upgrade yields None only if no Trc is
\* alive at that step, and an upgrade that yields Some leaves a Trc on a live
\* payload in valid memory.
C19_CyclicUpgrade ==
    [][\A t \in Threads :
         LET ends == pc[t] # "done" /\ pc'[t] = "done"
                     /\ reg'[t].op = "Weak::upgrade" IN
         /\ (nextCell = 1 /\ ends /\ pc[t] = "idle") => reg'[t].res = "None"
         /\ (nextCell = 1 /\ atomicref = 0) => pc'[t] # "upgrade_cas"
         /\ (ends /\ reg'[t].res = "None" /\ ~ub') => LiveTrcs = {}
         /\ (ends /\ reg'[t].res = "Some" /\ ~ub')
            => /\ payload' = "live" /\ mem' = "valid"
               /\ nextCell > 1 /\ trcs'[nextCell] = 1 /\ atomicref' >= 1
      ]_vars

\* thread 2 still holds the None of an upgrade made during the construction
\* while thread 1, after new_cyclic returned, has upgraded a retained clone
C19_Witness ==
    /\ Returned(2, "Weak::upgrade", "None")
    /\ Returned(1, "Weak::upgrade", "Some")
    /\ trcs[1] = 1 /\ trcs[2] = 1 /\ atomicref = 2
    /\ payload = "live" /\ ~ub

\* C20: into_raw (of a Trc or of a SharedTrc) and from_raw (to a Trc or to a
\* SharedTrc) each leave atomicref, weakcount, the payload and the memory as
\* they were; Trc::from_raw yields a handle on a fresh cell that holds 1,
\* SharedTrc::from_raw one more SharedTrc; and while a raw pointer is
\* outstanding the payload is live, in valid memory, with atomicref >= 1.
C20_RawRoundTrip ==
    [][/\ (nRaw > 0 /\ ~ub)
            => payload = "live" /\ mem = "valid" /\ atomicref >= 1
       /\ (nRaw' = nRaw + 1 /\ ~ub')
            => /\ UNCHANGED <<shared, slot, mem, nWeak, freeCount>>
               /\ \/ nShared' = nShared - 1 /\ UNCHANGED cells
                  \/ /\ nShared' = nShared
                     /\ \E c \in Cells : trcs' = [trcs EXCEPT ![c] = @ - 1]
       /\ (nRaw' = nRaw - 1)
            => /\ UNCHANGED <<shared, slot, mem, nWeak, freeCount, ub>>
               /\ \/ nShared' = nShared + 1 /\ UNCHANGED cells
                  \/ /\ nShared' = nShared
                     /\ nextCell' = nextCell + 1
                     /\ cellState'[nextCell] = "live"
                     /\ threadref'[nextCell] = 1
                     /\ trcs' = [trcs EXCEPT ![nextCell] = 1]
      ]_vars

UpgradeSome(t) ==
    /\ pc[t] = "upgrade_cas" /\ pc'[t] = "done"
    /\ reg'[t].op = "Weak::upgrade" /\ reg'[t].res = "Some"
    /\ ~ub'

C23_SliceConstruction ==
    \A t \in Threads : \A o \in SliceOps :
      Returned(t, o, "Ok") =>
        /\ atomicref = 1 /\ weakcount = 1
        /\ nextCell = 2 /\ cellState[1] = "live"
        /\ threadref[1] = 1 /\ trcs[1] = 1
        /\ payload = "live" /\ mem = "valid"
        /\ Len(data) = Len(reg[t].src)
        /\ \A i \in 1 .. Len(reg[t].src) : data[i] = reg[t].src[i]

\* a construction from an iterator over three elements that are not all
\* equal has returned
C23_Witness ==
    /\ Returned(1, "Trc::from_iter", "Ok")
    /\ reg[1].src = <<0, 1, 1>>
    /\ data = <<0, 1, 1>>

\* C24: every comparison of two handles of the same kind returns what the
\* same comparison returns on the values they wrap.
C24_Compare ==
    \A t \in Threads :
      (pc[t] = "done" /\ "kind" \in DOMAIN reg[t]) =>
        LET x == reg[t].x
            y == reg[t].y IN
        /\ reg[t].op = "ge" => reg[t].res = Bool(x >= y)
        /\ reg[t].op = "le" => reg[t].res = Bool(x <= y)
        /\ reg[t].op = "gt" => reg[t].res = Bool(x > y)
        /\ reg[t].op = "lt" => reg[t].res = Bool(x < y)

\* C25: no incrementing operation returns normally with its counter above
\* MAX_REFCOUNT: a step that adds a Trc to a cell leaves the cell's count at
\* most MAX_REFCOUNT, a step that adds a SharedTrc or completes an upgrade
\* leaves atomicref at most MAX_REFCOUNT, and a step that adds a Weak leaves
\* weakcount at most MAX_REFCOUNT.
C25_OverflowGuard ==
    [][/\ \A c \in Cells :
            (cellState[c] = "live" /\ trcs'[c] = trcs[c] + 1)
                => threadref'[c] <= MAX_REFCOUNT
       /\ nShared' = nShared + 1 => atomicref' <= MAX_REFCOUNT
       /\ (\E t \in Threads : UpgradeSome(t)) => atomicref' <= MAX_REFCOUNT
       /\ nWeak' = nWeak + 1 => weakcount' <= MAX_REFCOUNT
      ]_vars

\* C26: no operation waits for another thread; under fair scheduling and with
\* finitely many operations on the allocation every call of Weak::upgrade
\* (the only retry loop) and of Trc::get_mut returns
C26_Terminates ==
    \A t \in Threads :
      (pc[t] \in {"upgrade_cas", "get_mut_load", "get_mut_store"})
        ~> (pc[t] = "done")

\* an upgrade whose compare-exchange is going to fail, beside a get_mut in
\* progress or finished
C26_Witness ==
    \E t, u \in Threads :
      /\ pc[t] = "upgrade_cas"
      /\ reg[t].n # atomicref
      /\ reg[u].op = "Trc::get_mut"
      /\ ~ub

\* the access that thread t performed last
LastAcc(t) == Code(reg[t].op)[reg[t].n]

\* between the last read of a counter and the access at hand there is an
\* acquire fence
Fenced(t) ==
    LET code == Code(reg[t].op)
        n    == reg[t].n
    IN  \E j \in 1 .. n - 1 :
          /\ code[j].kind = "fence" /\ code[j].ord = "Acquire"
          /\ \A k \in j + 1 .. n - 1 : code[k].on = "none"

Destroys(t) == LastAcc(t).kind \in {"drop_in_place", "read", "dealloc"}

\* C27: every increment that makes a new reference uses Acquire or AcqRel,
\* every decrement of atomicref or weakcount uses Release, and an acquire
\* fence comes before the payload is destroyed or the memory freed
C27_Orderings ==
    \A t \in Threads :
      pc[t] = "atomics" =>
        /\ LastAcc(t).kind = "add" => LastAcc(t).ord \in {"Acquire", "AcqRel"}
        /\ LastAcc(t).kind = "sub" => LastAcc(t).ord = "Release"
        /\ Destroys(t) => Fenced(t)

\* C27 (amended): as C27, but Weak::clone increments weakcount with Relaxed
C27_OrderingsButWeakClone ==
    \A t \in Threads :
      pc[t] = "atomics" =>
        /\ LastAcc(t).kind = "add" =>
             IF reg[t].op = "Weak::clone" THEN LastAcc(t).ord = "Relaxed"
             ELSE LastAcc(t).ord \in {"Acquire", "AcqRel"}
        /\ LastAcc(t).kind = "sub" => LastAcc(t).ord = "Release"
        /\ Destroys(t) => Fenced(t)

\* one thread has destroyed the payload in Trc::drop while another has
\* incremented weakcount in Weak::clone
C27_Witness ==
    \E t, u \in Threads :
      /\ pc[t] = "atomics" /\ reg[t].op = "Trc::drop"
      /\ LastAcc(t).kind = "drop_in_place"
      /\ pc[u] = "atomics" /\ reg[u].op = "Weak::clone"

\* C28: once Trc::try_unwrap has moved the payload out, no Weak::upgrade
\* returns Some, and the memory stays valid while a Weak handle is left
C28_UnwrapEndsUpgrades ==
    [][payload = "moved" =>
         /\ ~ \E t \in Threads : UpgradeSome(t)
         /\ nWeak > 0 => mem = "valid"
      ]_vars

\* thread t calls Trc::into_inner in this step
CallsIntoInner(t) ==
    /\ pc[t] = "idle"
    /\ pc'[t] \in {"done", "read_out"}
    /\ reg'[t].op = "Trc::into_inner"

\* C29: when every Trc is alone on its thread-context and all of them end in
\* into_inner, the call that takes atomicref from 1 to 0 is the one that gets
\* the payload and every other call returns None; the payload is never
\* dropped in place, no cell is freed twice, and once all calls are over the
\* payload was moved out once, every cell is freed and the baseline weak unit
\* was released once (weakcount counts the Weak handles left, and the memory
\* is freed once when there is none)
C29_OneInner ==
    [][/\ \A t \in Threads :
            CallsIntoInner(t) =>
              /\ pc'[t] = "read_out" <=> (atomicref = 1 /\ atomicref' = 0)
              /\ pc'[t] = "done" => reg'[t].res = "None"
       /\ \A t \in Threads :
            (pc'[t] = "done" /\ reg'[t].op = "Trc::into_inner"
               /\ reg'[t].res = "Some") => (moveCount' = 1 /\ pc[t] # "idle")
       /\ dropCount' = 0
       /\ ~ub'
       /\ (LiveTrcs = {} /\ nShared = 0 /\ Quiescent)' =>
            /\ moveCount' = 1
            /\ \A c \in 1 .. nextCell' - 1 : cellState'[c] = "freed"
            /\ weakcount' = nWeak'
            /\ freeCount' = IF nWeak' = 0 THEN 1 ELSE 0
      ]_vars

\* two calls of into_inner have ended, one with the payload and one without
C29_Witness ==
    \E t, u \in Threads :
      /\ Returned(t, "Trc::into_inner", "Some")
      /\ Returned(u, "Trc::into_inner", "None")
      /\ LiveTrcs = {} /\ nShared = 0

\* C30: Trc::get_mut beside Trc::downgrade, Weak::clone and Weak::drop on
\* another thread-context: no operation on weakcount ends in the overflow
\* failure, get_mut does not return Some while a Weak handle exists, and once
\* the operations are over weakcount is 1 plus the number of Weak handles
C30_SentinelHarmless ==
    /\ \A t \in Threads :
         /\ ~ Returned(t, "Trc::downgrade", "panic")
         /\ ~ Returned(t, "Weak::clone", "panic")
         /\ Returned(t, "Trc::get_mut", "Some") => nWeak = 0
    /\ (Quiescent /\ LiveTrcs # {}) => weakcount = 1 + nWeak

\* C31: no counter underflows: no step takes atomicref, weakcount or a local
\* count from 0 to usize::MAX
C31_NoUnderflow ==
    [][/\ ~ (atomicref = 0 /\ atomicref' = USIZE_MAX)
       /\ ~ (weakcount = 0 /\ weakcount' = USIZE_MAX)
       /\ \A c \in Cells :
            ~ (cellState[c] = "live" /\ threadref[c] = 0
                 /\ threadref'[c] = USIZE_MAX)
      ]_vars

\* C32: SharedTrc::from(Trc) increments atomicref before the Trc it consumed
\* is released: the release leaves atomicref at 1 or more and does not
\* destroy the payload, and it takes the increment back exactly when the Trc
\* was the last handle on its cell
C32_FromByValue ==
    [][\A t \in Threads :
         /\ (pc[t] = "idle" /\ pc'[t] = "from_release") =>
              atomicref' = atomicref + 1
         /\ (pc[t] = "from_release" /\ pc'[t] # "from_release") =>
              /\ atomicref' >= 1
              /\ atomicref' = IF trcs[reg[t].cell] = 1 THEN atomicref - 1
                              ELSE atomicref
              /\ pc'[t] = "done" /\ reg'[t].res = "Ok"
              /\ nShared' = nShared + 1
              /\ payload' = "live" /\ mem' = "valid" /\ ~ub'
      ]_vars

\* the conversion has consumed the last handle of the first cell: the
\* SharedTrc it returned is the only owner
C32_Witness ==
    /\ \E t \in Threads : Returned(t, "SharedTrc::from", "Ok")
    /\ cellState[1] = "freed" /\ LiveTrcs = {}
    /\ nShared = 1 /\ atomicref = 1 /\ payload = "live" /\ ~ub

\* C33: for every payload alignment, from_raw applied to the pointer that
\* into_raw returned gives the address of the allocation
C33_FromRawBase ==
    \A t \in Threads :
      (pc[t] = "done" /\ reg[t].op = "from_raw") => reg[t].shared = reg[t].base

\* C35: for every element size, element alignment and length, the layout
\* with which a slice allocation is freed has the size and the alignment of
\* the layout with which it was allocated
C35_SliceLayout ==
    \A t \in Threads :
      (pc[t] = "done" /\ reg[t].op = "dealloc") =>
         /\ reg[t].free.size = reg[t].alloc.size
         /\ reg[t].free.align = reg[t].alloc.align

\* a slice whose elements end short of a multiple of the alignment has been
\* allocated and freed
C35_Witness ==
    \E t \in Threads :
      /\ pc[t] = "done" /\ reg[t].op = "dealloc"
      /\ reg[t].len = MaxLen /\ reg[t].esize > 0
      /\ reg[t].alloc.size > data_offset(reg[t].ealign) + reg[t].esize * reg[t].len

\* C34: Trc::new_cyclic writes the payload while atomicref is 0 and raises
\* atomicref from 0 to 1 afterwards, so that no upgrade returns Some on an
\* unwritten payload; when it returns, atomicref is 1, the Trc is alone on a
\* fresh cell that holds 1, and weakcount is 1 plus the number of Weak clones
\* that were kept: neither step changes weakcount
C34_CyclicOrder ==
    [][/\ \A t \in Threads : UpgradeSome(t) => payload = "live"
       /\ (pc[1] = "idle" /\ pc'[1] = "cyclic_raise") =>
            /\ payload = "uninit" /\ payload' = "live"
            /\ atomicref = 0 /\ atomicref' = 0
            /\ weakcount' = weakcount
       /\ (pc[1] = "cyclic_raise" /\ pc'[1] # "cyclic_raise") =>
            /\ payload = "live" /\ payload' = "live"
            /\ atomicref = 0 /\ atomicref' = 1
            /\ Returned(1, "Trc::new_cyclic", "Ok")'
            /\ trcs' = [c \in Cells |-> IF c = 1 THEN 1 ELSE 0]
            /\ threadref'[1] = 1 /\ cellState'[1] = "live"
            /\ weakcount' = weakcount /\ weakcount' = 1 + nWeak'
            /\ mem' = "valid" /\ ~ub'
      ]_vars

\* new_cyclic has returned and the constructor kept two clones of the Weak
C34_Witness ==
    /\ Returned(1, "Trc::new_cyclic", "Ok")
    /\ nWeak = 2 /\ weakcount = 3 /\ atomicref = 1
    /\ trcs[1] = 1 /\ payload = "live" /\ ~ub

====
